---- MODULE Spec2Model ----
(***************************************************************************)
(* Model of src/main.rs of pippo: the polling loop of main (button         *)
(* debounce, long/short press detection, navigation handlers, LED, render  *)
(* dispatch) and the /buzz HTTP handler that pulses the buzzer.            *)
(*                                                                         *)
(* Time.  The loop reads Instant::now() once per iteration and only ever   *)
(* uses the two stored instants through now.duration_since(..) compared    *)
(* with a threshold.  The model therefore keeps the two durations          *)
(*   since_changed = now.duration_since(btn_changed_at)                    *)
(*   since_pressed = now.duration_since(btn_pressed_at)                    *)
(* in milliseconds, as they will be read by the NEXT iteration, and stops  *)
(* counting each at the threshold it is compared with (a duration beyond   *)
(* the threshold compares like the threshold itself).  "x = now" in the    *)
(* code is "duration since x = 0" here.                                    *)
(***************************************************************************)
EXTENDS Integers, Sequences, FiniteSets

\* ------------------------------------------------------------ constants
DEBOUNCE_MS == 30

LONG_PRESS_MS == 1600

\* FreeRtos::delay_ms(20) at the end of every loop iteration
TICK_MS == 20

\* number of menu entries: the modulus of handle_short_press
MENU_OPTIONS == 3

\* let mut buf = [0_u8; 512] in get_weather
BUF_LEN == 512

\* the animation scheduler's timing, as the specification gives it (ms)
CLOSE_HOLD_MS == 100

BLINK_MIN_MS == 4000

BLINK_MAX_MS == 7000

\* ------------------------------------------------------------ bounds
\* An iteration lasts TICK_MS * k for some k in 1..MaxLate (the delay plus
\* the time the iteration's own work took, in whole tick periods).
MaxLate == 2

\* The per-press call counters stop counting here.
MaxCalls == 2

\* The count of sampled raw level changes stops counting here.
MaxChanges == 3

\* The navigation handlers are applied to every selection in 0..MaxIndex
\* (one value beyond the menu's entries).
MaxIndex == 3

\* Length of the remembered run of consecutive short presses in Menu.
MaxRun == 4

\* Longest response body, in bytes.
MaxBody == 4

\* Most bytes one successful read delivers.
MaxChunk == 3

TickDurations == {TICK_MS * k : k \in 1..MaxLate}

\* the ends of the range blinkInterval is drawn from
BlinkIntervals == {BLINK_MIN_MS, BLINK_MAX_MS}

UiStates == {"Home", "Menu", "Settings", "Status", "Exit"}

VARIABLES
  ui_state,       \* UiState
  option_index,   \* u8 selection
  btn_down,       \* debounced level
  btn_raw_last,   \* last raw read
  since_changed,  \* now.duration_since(btn_changed_at), capped at DEBOUNCE_MS
  since_pressed,  \* now.duration_since(btn_pressed_at), capped at LONG_PRESS_MS
  long_fired,     \* long press fired once
  led,            \* level last driven on the LED pin: "unset", "low", "high"
  panicked,       \* the loop hit unreachable!() and aborted
  display,        \* the screen last drawn and flushed to the display
  \* observation of the run (not program state)
  calls,          \* handlers called by the last iteration, in call order
  long_calls,     \* handle_long_press calls since the last debounced rising edge
  short_calls,    \* handle_short_press calls since the last debounced rising edge
  ever_called,    \* some handler has been called
  changes,        \* raw level changes sampled so far (stops counting at MaxChanges)
  settled,        \* some iteration found the pressed level held >= DEBOUNCE_MS
  early_release,  \* the raw release being debounced was sampled < LONG_PRESS_MS after the press
  fallback_hit,   \* the `_` arm of handle_long_press's inner match was executed
  menu_run,       \* selections seen over the current run of short presses in Menu
  redrawn,        \* the last iteration cleared, drew and flushed a screen
  fresh_hold,     \* raw went to pressed while btn_down was false and has stayed pressed since
  \* the /buzz handler and the buzzer behind Arc<Mutex<..>>
  hpc,            \* position of the handler closure
  buzzer_lock,    \* holder of the Mutex: "none" or "handler"
  buzzer,         \* level last driven on the buzzer pin: "unset", "low", "high"
  \* get_weather, called once before the loop
  wpc,            \* "reading": in the body-read loop; "done": the loop has exited
  body,           \* the bytes of the response body, as the server sends them
  sent,           \* how many of them the reader has delivered
  conn,           \* "open", or "failed": every further read returns Err
  buf,            \* buf[..n], n the extent last written by a read or by copy_within
  offset,         \* offset
  json_response,  \* json_response, as its UTF-8 bytes
  max_offset,     \* largest offset so far (observation)
  err_odd,        \* an odd number of reads have returned Err (observation)
  \* the animation scheduler of the specification (AnimationState)
  eyes_open,      \* eyesOpen
  since_toggle,   \* now - lastToggle, capped at BLINK_MAX_MS
  blink_interval, \* blinkInterval
  blinked         \* the last iteration made a blink transition (observation)

loopVars == <<ui_state, option_index, btn_down, btn_raw_last, since_changed,
              since_pressed, long_fired, led, panicked, display>>

obsVars == <<calls, long_calls, short_calls, ever_called, changes, settled,
             early_release, fallback_hit, menu_run, redrawn, fresh_hold>>

buzzVars == <<hpc, buzzer_lock, buzzer>>

weatherVars == <<wpc, body, sent, conn, buf, offset, json_response, max_offset,
                 err_odd>>

blinkVars == <<eyes_open, since_toggle, blink_interval, blinked>>

sideVars == <<weatherVars, blinkVars>>

vars == <<loopVars, obsVars, buzzVars, sideVars>>

Cap(x, cap) == IF x > cap THEN cap ELSE x

\* ------------------------------------------------------------ handlers

\* handle_long_press with the arms of selections 1 and 2 exchanged
handle_long_press_Swapped(ui, idx) ==
  CASE ui = "Home" -> "Menu"
    [] ui = "Menu" -> (CASE idx = 0 -> "Settings"
                         [] idx = 1 -> "Exit"
                         [] idx = 2 -> "Status"
                         [] OTHER -> "Menu")
    [] OTHER -> "Home"

\* fn handle_long_press(ui_state: &mut UiState, option_index: u8)
handle_long_press(ui, idx) ==
  CASE ui = "Home" -> "Menu"
    [] ui = "Menu" -> (CASE idx = 0 -> "Settings"
                         [] idx = 1 -> "Status"
                         [] idx = 2 -> "Exit"
                         [] OTHER -> "Menu")
    [] OTHER -> "Home"

\* whether handle_long_press(ui, idx) runs the `_ => Menu` arm of its inner match
LongFallbackArm(ui, idx) == ui = "Menu" /\ idx \notin {0, 1, 2}

\* handle_short_press without `*option_index = 0` on the way back to Menu
handle_short_press_NoReset(ui, idx) ==
  CASE ui = "Menu" -> [ui_state |-> ui, option_index |-> (idx + 1) % MENU_OPTIONS]
    [] ui \in {"Settings", "Status", "Exit"} -> [ui_state |-> "Menu", option_index |-> idx]
    [] OTHER -> [ui_state |-> ui, option_index |-> idx]

\* handle_short_press that steps the selection by two
handle_short_press_Skip(ui, idx) ==
  CASE ui = "Menu" -> [ui_state |-> ui, option_index |-> (idx + 2) % MENU_OPTIONS]
    [] ui \in {"Settings", "Status", "Exit"} -> [ui_state |-> "Menu", option_index |-> 0]
    [] OTHER -> [ui_state |-> ui, option_index |-> idx]

\* handle_short_press with the modulus off by one
handle_short_press_Mod4(ui, idx) ==
  CASE ui = "Menu" -> [ui_state |-> ui, option_index |-> (idx + 1) % (MENU_OPTIONS + 1)]
    [] ui \in {"Settings", "Status", "Exit"} -> [ui_state |-> "Menu", option_index |-> 0]
    [] OTHER -> [ui_state |-> ui, option_index |-> idx]

\* fn handle_short_press(ui_state: &mut UiState, option_index: &mut u8)
\* (the u8 sum *option_index + 1 stays far below 256 for every selection used here)
handle_short_press(ui, idx) ==
  CASE ui = "Menu" -> [ui_state |-> ui, option_index |-> (idx + 1) % MENU_OPTIONS]
    [] ui \in {"Settings", "Status", "Exit"} -> [ui_state |-> "Menu", option_index |-> 0]
    [] OTHER -> [ui_state |-> ui, option_index |-> idx]

\* handle_led with the two levels exchanged
handle_led_Inverted(down) == IF down THEN "low" ELSE "high"

\* fn handle_led(led, btn_down)
handle_led(down) == IF down THEN "high" ELSE "low"

\* ------------------------------------------------------------ one loop iteration
\* The part of the loop state an iteration's button handling reads and writes.
LoopState ==
  [ui_state |-> ui_state, option_index |-> option_index, btn_down |-> btn_down,
   btn_raw_last |-> btn_raw_last, since_changed |-> since_changed,
   since_pressed |-> since_pressed, long_fired |-> long_fired,
   calls |-> <<>>, fallback |-> FALSE]

\* Debounce without `btn_changed_at = now`
Debounce_NoRestart(s, raw) == [s EXCEPT !.btn_raw_last = raw]

\* if raw != btn_raw_last { btn_raw_last = raw; btn_changed_at = now; }
Debounce(s, raw) ==
  IF raw # s.btn_raw_last
    THEN [s EXCEPT !.btn_raw_last = raw, !.since_changed = 0]
    ELSE s

\* stable after one tick period instead of the debounce window
Stable_Early(s) == s.since_changed >= TICK_MS

\* let stable = now.duration_since(btn_changed_at) >= DEBOUNCE_MS
Stable(s) == s.since_changed >= DEBOUNCE_MS

\* RisingEdge that also resets the selection
RisingEdge_ResetsSelection(s, raw) ==
  IF raw /\ ~s.btn_down
    THEN [s EXCEPT !.btn_down = TRUE, !.since_pressed = 0, !.long_fired = FALSE,
                   !.option_index = 0]
    ELSE s

\* if raw && !btn_down { btn_down = true; btn_pressed_at = now; long_fired = false; }
RisingEdge(s, raw) ==
  IF raw /\ ~s.btn_down
    THEN [s EXCEPT !.btn_down = TRUE, !.since_pressed = 0, !.long_fired = FALSE]
    ELSE s

\* LongPress that opens the menu on its first entry
LongPress_ResetsSelection(s) ==
  IF s.btn_down /\ ~s.long_fired /\ s.since_pressed >= LONG_PRESS_MS
    THEN [s EXCEPT !.long_fired = TRUE,
                   !.ui_state = handle_long_press(s.ui_state, s.option_index),
                   !.option_index = IF s.ui_state = "Home" THEN 0 ELSE s.option_index,
                   !.fallback = LongFallbackArm(s.ui_state, s.option_index),
                   !.calls = Append(s.calls, "long")]
    ELSE s

\* LongPress without `long_fired = true`
LongPress_NoLatch(s) ==
  IF s.btn_down /\ ~s.long_fired /\ s.since_pressed >= LONG_PRESS_MS
    THEN [s EXCEPT !.ui_state = handle_long_press(s.ui_state, s.option_index),
                   !.fallback = LongFallbackArm(s.ui_state, s.option_index),
                   !.calls = Append(s.calls, "long")]
    ELSE s

\* if btn_down && !long_fired && now - btn_pressed_at >= LONG_PRESS_MS
\*   { long_fired = true; handle_long_press(&mut ui_state, option_index); }
LongPress(s) ==
  IF s.btn_down /\ ~s.long_fired /\ s.since_pressed >= LONG_PRESS_MS
    THEN [s EXCEPT !.long_fired = TRUE,
                   !.ui_state = handle_long_press(s.ui_state, s.option_index),
                   !.fallback = LongFallbackArm(s.ui_state, s.option_index),
                   !.calls = Append(s.calls, "long")]
    ELSE s

\* FallingEdge without the long_fired test
FallingEdge_Always(s, raw) ==
  IF ~raw /\ s.btn_down
    THEN LET r == handle_short_press(s.ui_state, s.option_index)
         IN  [s EXCEPT !.btn_down = FALSE,
                       !.ui_state = r.ui_state,
                       !.option_index = r.option_index,
                       !.calls = Append(s.calls, "short")]
    ELSE s

\* if !raw && btn_down { btn_down = false;
\*   if !long_fired { handle_short_press(&mut ui_state, &mut option_index); } }
FallingEdge(s, raw) ==
  IF ~raw /\ s.btn_down
    THEN IF ~s.long_fired
           THEN LET r == handle_short_press(s.ui_state, s.option_index)
                IN  [s EXCEPT !.btn_down = FALSE,
                              !.ui_state = r.ui_state,
                              !.option_index = r.option_index,
                              !.calls = Append(s.calls, "short")]
           ELSE [s EXCEPT !.btn_down = FALSE]
    ELSE s

\* the button handling of one iteration: debounce, then the edges when stable
ButtonStep(s, raw) ==
  LET s1 == Debounce(s, raw)
  IN  IF Stable(s1) THEN FallingEdge(LongPress(RisingEdge(s1, raw)), raw) ELSE s1

\* UiState::Menu render arm: `_ => unreachable!()` on an option_index that is
\* not 0, 1 or 2, reached only when the menu is redrawn (!btn_down)
MenuUnreachable(ui, idx, down) == ui = "Menu" /\ ~down /\ idx \notin {0, 1, 2}

\* a render dispatch whose Menu arm has no `if !btn_down`
Redraws_Always(ui, down) == TRUE

\* `match ui_state { .. }` after handle_led: whether this iteration clears,
\* draws and flushes a screen (every arm but Menu does so unconditionally)
Redraws(ui, down) == ui # "Menu" \/ ~down

\* the screen an arm of the render dispatch draws: menu_screen highlights the
\* entry of option_index
ScreenOf(ui, idx) == IF ui = "Menu" THEN <<"Menu", idx>> ELSE <<ui>>

\* the display after the render dispatch of one iteration
Render(shown, ui, idx, down) == IF Redraws(ui, down) THEN ScreenOf(ui, idx) ELSE shown

\* ------------------------------------------------------------ observation
Count(seq, x) == Cardinality({i \in DOMAIN seq : seq[i] = x})

Last(seq, n) == IF Len(seq) > n THEN SubSeq(seq, Len(seq) - n + 1, Len(seq)) ELSE seq

RunAfter(s0, s2) ==
  IF "long" \in {s2.calls[i] : i \in DOMAIN s2.calls} THEN <<>>
  ELSE IF "short" \in {s2.calls[i] : i \in DOMAIN s2.calls}
    THEN IF s0.ui_state = "Menu"
           THEN Last(Append(IF menu_run = <<>> THEN <<s0.option_index>> ELSE menu_run,
                            s2.option_index), MaxRun)
           ELSE <<>>
  ELSE menu_run

\* ------------------------------------------------------------ the loop
\* the locals of main before `loop`, other than ui_state and option_index
InitButton ==
  /\ btn_down = FALSE
  /\ btn_raw_last = FALSE
  /\ since_changed = 0
  /\ since_pressed = 0
  /\ long_fired = FALSE
  /\ led = "unset"
  /\ panicked = FALSE
  /\ display = <<"Boot">>
  /\ redrawn = FALSE
  /\ fresh_hold = FALSE
  /\ calls = <<>>
  /\ long_calls = 0
  /\ short_calls = 0
  /\ ever_called = FALSE
  /\ changes = 0
  /\ settled = FALSE
  /\ early_release = FALSE
  /\ fallback_hit = FALSE
  /\ menu_run = <<>>
  /\ hpc = "idle"
  /\ buzzer_lock = "none"
  /\ buzzer = "unset"

\* get_weather has returned Ok (line 134) before the loop starts
WeatherReturned ==
  /\ wpc = "done"
  /\ body = <<>>
  /\ sent = 0
  /\ conn = "open"
  /\ buf = <<>>
  /\ offset = 0
  /\ json_response = <<>>
  /\ max_offset = 0
  /\ err_odd = FALSE

\* AnimationState at start: eyes open, lastToggle = now
BlinkAtStart ==
  /\ eyes_open = TRUE
  /\ since_toggle = 0
  /\ blink_interval \in BlinkIntervals
  /\ blinked = FALSE

\* no scheduler running: one fixed AnimationState
BlinkIdle == BlinkAtStart /\ blink_interval = BLINK_MIN_MS

Init ==
  /\ ui_state = "Home"
  /\ option_index = 0
  /\ InitButton
  /\ WeatherReturned
  /\ BlinkIdle

\* One iteration of `loop { .. }`: raw is button.is_low(), d the time until the
\* next iteration reads Instant::now().
TickLoop(raw, d) ==
  /\ ~panicked
  /\ LET s0 == LoopState
         s1 == Debounce(s0, raw)
         s2 == ButtonStep(s0, raw)
         rose == ~s0.btn_down /\ s2.btn_down
         nlong == Count(s2.calls, "long")
         nshort == Count(s2.calls, "short")
     IN  /\ ui_state' = s2.ui_state
         /\ option_index' = s2.option_index
         /\ btn_down' = s2.btn_down
         /\ btn_raw_last' = s2.btn_raw_last
         /\ long_fired' = s2.long_fired
         /\ since_changed' = Cap(s2.since_changed + d, DEBOUNCE_MS)
         /\ since_pressed' = Cap(s2.since_pressed + d, LONG_PRESS_MS)
         /\ led' = handle_led(s2.btn_down)
         /\ panicked' = MenuUnreachable(s2.ui_state, s2.option_index, s2.btn_down)
         /\ calls' = s2.calls
         /\ long_calls' = Cap((IF rose THEN 0 ELSE long_calls) + nlong, MaxCalls)
         /\ short_calls' = Cap((IF rose THEN 0 ELSE short_calls) + nshort, MaxCalls)
         /\ ever_called' = (ever_called \/ s2.calls # <<>>)
         /\ changes' = (IF raw # s0.btn_raw_last THEN Cap(changes + 1, MaxChanges) ELSE changes)
         /\ settled' = (settled \/ (raw /\ Stable(s1)))
         /\ early_release' =
              (IF s0.btn_down /\ s0.btn_raw_last /\ ~raw
                 THEN s0.since_pressed < LONG_PRESS_MS
                 ELSE IF rose THEN FALSE ELSE early_release)
         /\ fallback_hit' = (fallback_hit \/ s2.fallback)
         /\ menu_run' = RunAfter(s0, s2)
         /\ display' = Render(display, s2.ui_state, s2.option_index, s2.btn_down)
         /\ redrawn' = Redraws(s2.ui_state, s2.btn_down)
         /\ fresh_hold' =
              (IF ~raw THEN FALSE
               ELSE IF ~s0.btn_raw_last THEN ~s0.btn_down ELSE fresh_hold)

Tick(raw, d) == TickLoop(raw, d) /\ UNCHANGED <<buzzVars, sideVars>>

Next == \E raw \in BOOLEAN, d \in TickDurations : Tick(raw, d)

Spec == Init /\ [][Next]_vars

\* ------------------------------------------------------------ the handlers alone
\* handle_long_press(&mut ui_state, option_index) applied to the current pair
NavLong ==
  /\ ui_state' = handle_long_press(ui_state, option_index)
  /\ calls' = <<"long">>
  /\ long_calls' = Cap(long_calls + 1, MaxCalls)
  /\ ever_called' = TRUE
  /\ fallback_hit' = (fallback_hit \/ LongFallbackArm(ui_state, option_index))
  /\ menu_run' = <<>>
  /\ UNCHANGED <<option_index, btn_down, btn_raw_last, since_changed, since_pressed,
                 long_fired, led, panicked, short_calls, changes, settled,
                 early_release, display, redrawn, fresh_hold, buzzVars, sideVars>>

\* handle_short_press(&mut ui_state, &mut option_index) applied to the current pair
NavShort ==
  LET r == handle_short_press(ui_state, option_index)
  IN  /\ ui_state' = r.ui_state
      /\ option_index' = r.option_index
      /\ calls' = <<"short">>
      /\ short_calls' = Cap(short_calls + 1, MaxCalls)
      /\ ever_called' = TRUE
      /\ menu_run' = RunAfter(LoopState, [calls |-> <<"short">>, option_index |-> r.option_index])
      /\ UNCHANGED <<btn_down, btn_raw_last, since_changed, since_pressed, long_fired,
                     led, panicked, long_calls, changes, settled, early_release,
                     fallback_hit, display, redrawn, fresh_hold, buzzVars, sideVars>>

\* every UiState with every selection in 0..MaxIndex
InitNav ==
  /\ ui_state \in UiStates
  /\ option_index \in 0..MaxIndex
  /\ InitButton
  /\ WeatherReturned
  /\ BlinkIdle

NextNav == NavLong \/ NavShort

\* the two navigation handlers as functions, on every input pair
SpecNav == InitNav /\ [][NextNav]_vars

\* ------------------------------------------------------------ the /buzz handler
\* A GET /buzz arrives: buzz_html(), request.into_ok_response()
BuzzRequest ==
  /\ hpc = "idle"
  /\ hpc' = "lock_high"
  /\ UNCHANGED <<buzzer_lock, buzzer, loopVars, obsVars, sideVars>>

\* buzzer_clone.lock().unwrap(): blocks until the Mutex is free
BuzzLock(at, to) ==
  /\ hpc = at
  /\ buzzer_lock = "none"
  /\ buzzer_lock' = "handler"
  /\ hpc' = to
  /\ UNCHANGED <<buzzer, loopVars, obsVars, sideVars>>

\* buzzer_lock.set_high() / set_low() through the guard
BuzzSet(at, level, to) ==
  /\ hpc = at
  /\ buzzer_lock = "handler"
  /\ buzzer' = level
  /\ hpc' = to
  /\ UNCHANGED <<buzzer_lock, loopVars, obsVars, sideVars>>

\* the closing brace of the block: the MutexGuard is dropped
BuzzDrop(at, to) ==
  /\ hpc = at
  /\ buzzer_lock' = "none"
  /\ hpc' = to
  /\ UNCHANGED <<buzzer, loopVars, obsVars, sideVars>>

\* FreeRtos::delay_ms(200) returns
BuzzDelay ==
  /\ hpc = "delay"
  /\ hpc' = "lock_low"
  /\ UNCHANGED <<buzzer_lock, buzzer, loopVars, obsVars, sideVars>>

\* response.write(html.as_bytes()); Ok(())
BuzzWrite ==
  /\ hpc = "write"
  /\ hpc' = "idle"
  /\ UNCHANGED <<buzzer_lock, buzzer, loopVars, obsVars, sideVars>>

BuzzLockHigh == BuzzLock("lock_high", "set_high")

BuzzSetHigh == BuzzSet("set_high", "high", "drop_high")

\* the handler with one block around set_high, the delay and set_low: the
\* guard taken for set_high is still held when the delay starts
BuzzDropHigh_Held ==
  /\ hpc = "drop_high"
  /\ hpc' = "delay"
  /\ UNCHANGED <<buzzer_lock, buzzer, loopVars, obsVars, sideVars>>

BuzzDropHigh == BuzzDrop("drop_high", "delay")

BuzzLockLow == BuzzLock("lock_low", "set_low")

BuzzSetLow == BuzzSet("set_low", "low", "drop_low")

BuzzDropLow == BuzzDrop("drop_low", "write")

LoopTick == \E raw \in BOOLEAN, d \in TickDurations : Tick(raw, d)

NextBuzz ==
  \/ LoopTick
  \/ BuzzRequest
  \/ BuzzLockHigh
  \/ BuzzSetHigh
  \/ BuzzDropHigh
  \/ BuzzDelay
  \/ BuzzLockLow
  \/ BuzzSetLow
  \/ BuzzDropLow
  \/ BuzzWrite

\* the loop running beside the HTTP server task that serves /buzz
SpecBuzz == Init /\ [][NextBuzz]_vars

\* ------------------------------------------------------------ get_weather
\* The bytes a body is made of: 'A', and the bytes of a 2-byte character
\* (C3 A9) and of a 3-byte character (E2 A9 A9).
WireBytes == {65, 195, 169, 226}

Bodies == UNION {[1..n -> WireBytes] : n \in 0..MaxBody}

Min(a, b) == IF a < b THEN a ELSE b

\* the number of bytes of the UTF-8 sequence a first byte announces; 0 for a
\* byte that cannot start one
Utf8Width(b) ==
  IF b < 128 THEN 1
  ELSE IF b >= 194 /\ b <= 223 THEN 2
  ELSE IF b >= 224 /\ b <= 239 THEN 3
  ELSE IF b >= 240 /\ b <= 244 THEN 4
  ELSE 0

\* the range the byte after first byte b must lie in
SecondLow(b) == IF b = 224 THEN 160 ELSE IF b = 240 THEN 144 ELSE 128

SecondHigh(b) == IF b = 237 THEN 159 ELSE IF b = 244 THEN 143 ELSE 191

\* bytes[i+1 .. i+w] is one well-formed UTF-8 sequence
WellFormedAt(bytes, i, w) ==
  /\ w > 0
  /\ i + w <= Len(bytes)
  /\ w >= 2 => (bytes[i + 2] >= SecondLow(bytes[i + 1]) /\ bytes[i + 2] <= SecondHigh(bytes[i + 1]))
  /\ \A k \in 3..w : bytes[i + k] >= 128 /\ bytes[i + k] <= 191

\* str::from_utf8(bytes): Utf8Error::valid_up_to(), scanning on from index i;
\* Len(bytes) when from_utf8 returns Ok
RECURSIVE ValidUpTo(_, _)
ValidUpTo(bytes, i) ==
  IF i >= Len(bytes) THEN i
  ELSE LET w == Utf8Width(bytes[i + 1])
       IN  IF WellFormedAt(bytes, i, w) THEN ValidUpTo(bytes, i + w) ELSE i

ValidUtf8(bytes) == ValidUpTo(bytes, 0) = Len(bytes)

\* a loop that keeps the undecoded bytes where they are
CopyWithin_None(filled, valid_up_to) == filled

\* buf.copy_within(valid_up_to.., 0)
CopyWithin(filled, valid_up_to) == SubSeq(filled, valid_up_to + 1, Len(filled))

\* Read::read(&mut reader, &mut buf[offset..]) returns Ok(n), n > 0, and the
\* body of the `if let Ok(size)` runs
ReadOk(n) ==
  /\ wpc = "reading"
  /\ conn = "open"
  /\ n <= Min(Len(body) - sent, BUF_LEN - offset)
  /\ LET filled == SubSeq(buf, 1, offset) \o SubSeq(body, sent + 1, sent + n)
         size_plus_offset == n + offset
         valid_up_to == ValidUpTo(filled, 0)
     IN  /\ sent' = sent + n
         /\ IF valid_up_to = size_plus_offset
              THEN /\ json_response' = json_response \o filled
                   /\ buf' = filled
                   /\ offset' = 0
              ELSE /\ json_response' = json_response \o SubSeq(filled, 1, valid_up_to)
                   /\ buf' = CopyWithin(filled, valid_up_to)
                   /\ offset' = size_plus_offset - valid_up_to
         /\ max_offset' = (IF offset' > max_offset THEN offset' ELSE max_offset)
  /\ UNCHANGED <<wpc, body, conn, err_odd, loopVars, obsVars, buzzVars, blinkVars>>

\* read returns Ok(0), at the end of the body or into an empty buf[offset..]:
\* `break`
ReadEnd ==
  /\ wpc = "reading"
  /\ conn = "open"
  /\ sent = Len(body) \/ offset = BUF_LEN
  /\ wpc' = "done"
  /\ UNCHANGED <<body, sent, conn, buf, offset, json_response, max_offset, err_odd,
                 loopVars, obsVars, buzzVars, blinkVars>>

\* read returns Err: the `if let Ok(size)` does not match and the loop goes
\* round; the connection may have failed for good
ReadErr ==
  /\ wpc = "reading"
  /\ conn' \in (IF conn = "failed" THEN {"failed"} ELSE {"open", "failed"})
  /\ err_odd' = ~err_odd
  /\ UNCHANGED <<wpc, body, sent, buf, offset, json_response, max_offset,
                 loopVars, obsVars, buzzVars, blinkVars>>

\* get_weather has entered the 2xx arm: any body of at most MaxBody bytes
InitWeather ==
  /\ ui_state = "Home"
  /\ option_index = 0
  /\ InitButton
  /\ BlinkIdle
  /\ wpc = "reading"
  /\ body \in Bodies
  /\ sent = 0
  /\ conn = "open"
  /\ buf = <<>>
  /\ offset = 0
  /\ json_response = <<>>
  /\ max_offset = 0
  /\ err_odd = FALSE

NextWeather == (\E n \in 1..MaxChunk : ReadOk(n)) \/ ReadEnd \/ ReadErr

\* the body-read loop of get_weather
SpecWeather == InitWeather /\ [][NextWeather]_vars

\* the same, the thread going round the loop as long as it can
SpecWeatherFair == InitWeather /\ [][NextWeather]_vars /\ WF_vars(NextWeather)

\* ------------------------------------------------------------ the blink scheduler
\* One evaluation of the scheduler at `now`, d before the next one.
\* Open: stays until now - lastToggle >= blinkInterval, then closes.
\* Closed: stays until now - lastToggle >= CLOSE_HOLD, then opens and draws a
\* new blinkInterval.  Either transition sets lastToggle = now.
BlinkAdvance(d) ==
  LET due == since_toggle >= (IF eyes_open THEN blink_interval ELSE CLOSE_HOLD_MS)
  IN  /\ blinked' = due
      /\ eyes_open' = (IF due THEN ~eyes_open ELSE eyes_open)
      /\ since_toggle' = Cap((IF due THEN 0 ELSE since_toggle) + d, BLINK_MAX_MS)
      /\ blink_interval' \in (IF due /\ ~eyes_open THEN BlinkIntervals ELSE {blink_interval})

\* One iteration of the loop with the button left alone, the scheduler
\* evaluated against the same `now`.
TickBlink(d) ==
  /\ TickLoop(FALSE, d)
  /\ BlinkAdvance(d)
  /\ UNCHANGED <<buzzVars, weatherVars>>

InitBlink ==
  /\ ui_state = "Home"
  /\ option_index = 0
  /\ InitButton
  /\ WeatherReturned
  /\ BlinkAtStart

NextBlink == \E d \in TickDurations : TickBlink(d)

\* the loop on the home screen with the scheduler of the specification
SpecBlink == InitBlink /\ [][NextBlink]_vars

\* ------------------------------------------------------------ properties
Called(seq, x) == x \in {seq[i] : i \in DOMAIN seq}

\* a step on which the debounced level rises / falls
RisingStep == ~btn_down /\ btn_down'

FallingStep == btn_down /\ ~btn_down'

\* the iteration of this step samples the level of the previous iteration and
\* reads now - btn_changed_at >= DEBOUNCE_MS
HeldStep == btn_raw_last' = btn_raw_last /\ since_changed >= DEBOUNCE_MS

\* C1 (step): btn_down changes in an iteration only if the sampled raw level
\* has been unchanged for at least DEBOUNCE_MS, and it then takes the raw
\* level's value.
C1_Step == (btn_down' # btn_down) => (HeldStep /\ btn_down' = btn_raw_last')

\* C1: the debounced level changes only on a raw level held >= DEBOUNCE_MS and
\* then equals it; and as long as no iteration has found the pressed level held
\* for DEBOUNCE_MS (bouncing input, presses shorter than the window), btn_down
\* has never been set and no handler has been called.
C1_Debounce ==
  /\ [](~settled => (~btn_down /\ ~ever_called /\ ui_state = "Home" /\ option_index = 0))
  /\ [][C1_Step]_vars

\* C1 witness: the raw level has changed MaxChanges times (pressed, released,
\* pressed ...), never held for the window, and nothing has registered.
C1_Witness == changes = MaxChanges /\ ~settled /\ ~btn_down /\ btn_raw_last

\* C2 (step): long_fired goes back to false only on a debounced rising edge; a
\* press that is still held, or that is being released, at least
\* LONG_PRESS_MS after btn_pressed_at has had exactly one long-press call.
C2_Step ==
  /\ (long_fired /\ ~long_fired') => RisingStep
  /\ (btn_down /\ HeldStep /\ since_pressed >= LONG_PRESS_MS) => long_calls' = 1

\* C2: between one debounced rising edge and the next, handle_long_press is
\* called at most once, and exactly once when the press lasts LONG_PRESS_MS or
\* longer, however many iterations follow; long_fired is reset only on a
\* debounced rising edge.
C2_LongPressOnce == [](long_calls <= 1) /\ [][C2_Step]_vars

\* C2 witness: the long press has fired and a later iteration of the same
\* hold has run without calling it again.
C2_Witness ==
  btn_down /\ btn_raw_last /\ long_fired /\ long_calls = 1 /\ calls = <<>>
    /\ since_pressed = LONG_PRESS_MS

\* C3: a press whose raw level went back to released less than LONG_PRESS_MS
\* after btn_pressed_at gets, when that release is debounced, exactly one
\* short-press call and no long-press call.
C3_ShortPressOnEarlyRelease ==
  [][(FallingStep /\ early_release) => (short_calls' = 1 /\ long_calls' = 0)]_vars

\* C4: on a debounced falling edge handle_short_press is called iff long_fired
\* is false at that moment, and no press gets both a long-press and a
\* short-press call.
C4_NoShortAfterLong ==
  /\ [](~(long_calls >= 1 /\ short_calls >= 1))
  /\ [][FallingStep => (Called(calls', "short") <=> ~long_fired')]_vars

\* C4 witness: a press on which the long press fired has been released and no
\* short-press call was made for it.
C4_Witness == ~btn_down /\ ~btn_raw_last /\ long_fired /\ long_calls = 1 /\ short_calls = 0

\* the long-press table of the navigation state machine
LongTable(ui, idx) ==
  IF ui = "Home" THEN "Menu"
  ELSE IF ui = "Menu" THEN <<"Settings", "Status", "Exit">>[idx + 1]
  ELSE "Home"

\* C5: every call of handle_long_press yields a UiState, and for a selection in
\* 0..2 the one of the long-press table: Home -> Menu; Menu with 0, 1, 2 ->
\* Settings, Status, Exit; Settings, Status, Exit -> Home.
C5_LongPressTable ==
  [][Called(calls', "long")
       => /\ ui_state' \in UiStates
          /\ option_index \in 0..2 => ui_state' = LongTable(ui_state, option_index)]_vars

\* C5 witness: a long press in Menu with selection 1 has led to Status.
C5_Witness ==
  ui_state = "Status" /\ option_index = 1 /\ calls = <<"long">> /\ long_calls = 2

\* C6: every call of handle_short_press follows the short-press table: Menu
\* stays Menu with selection (selection + 1) mod 3; Settings, Status and Exit
\* go to Menu with selection 0; Home keeps state and selection.
C6_ShortPressTable ==
  [][Called(calls', "short")
       => /\ ui_state = "Menu"
               => (ui_state' = "Menu" /\ option_index' = (option_index + 1) % 3)
          /\ ui_state \in {"Settings", "Status", "Exit"}
               => (ui_state' = "Menu" /\ option_index' = 0)
          /\ ui_state = "Home"
               => (ui_state' = "Home" /\ option_index' = option_index)]_vars

\* C6 witness: a short press outside Menu (in Status, reached by a long press
\* in Menu with selection 1) has led to Menu with selection 0.
C6_Witness ==
  ui_state = "Menu" /\ option_index = 0 /\ calls = <<"short">> /\ menu_run = <<>>
    /\ long_calls >= 1

\* C7: over a run of consecutive short presses in Menu the UI stays in Menu,
\* each press advances the selection by one modulo 3, and every third press
\* brings back the selection of three presses before.
C7_MenuCycle ==
  menu_run # <<>> =>
    /\ ui_state = "Menu"
    /\ menu_run[Len(menu_run)] = option_index
    /\ \A i \in 1..(Len(menu_run) - 1) : menu_run[i + 1] = (menu_run[i] + 1) % 3
    /\ \A i \in 1..(Len(menu_run) - 3) : menu_run[i + 3] = menu_run[i]

\* C7 witness: three short presses after entering Menu: 0, 1, 2, 0.
C7_Witness == menu_run = <<0, 1, 2, 0>> /\ ~btn_down

\* C8: the selection is always 0, 1 or 2; the loop never reaches
\* unreachable!() and handle_long_press never runs its fallback arm.
C8_SelectionInRange == option_index \in {0, 1, 2} /\ ~panicked /\ ~fallback_hit

\* C8 witness: the menu was cycled to its last entry, which a long press then
\* opened, and the press has been released.
C8_Witness == ui_state = "Exit" /\ option_index = 2 /\ ~btn_down /\ long_fired

InSetCall == hpc \in {"set_high", "drop_high", "set_low", "drop_low"}

\* C10 (step): a step of the loop leaves the buzzer lock alone.
C10_Step == (loopVars' # loopVars \/ obsVars' # obsVars) => buzzer_lock' = buzzer_lock

\* C10: the buzzer lock is held only by the /buzz handler and only around its
\* set_high and set_low calls, it is free during the pulse delay, the loop
\* never takes it, and a loop iteration can run in every state the handler
\* can be in.
C10_BuzzerLock ==
  /\ [](/\ buzzer_lock \in {"none", "handler"}
        /\ buzzer_lock = "handler" <=> InSetCall
        /\ hpc = "delay" => (buzzer_lock = "none" /\ buzzer = "high")
        /\ ~panicked => ENABLED LoopTick)
  /\ [][C10_Step]_vars

\* C10 witness: the handler is inside its pulse delay, the lock is free, and
\* the loop has registered a press and fired its long press meanwhile.
C10_Witness ==
  hpc = "delay" /\ buzzer_lock = "none" /\ buzzer = "high" /\ btn_down
    /\ calls = <<"long">>

\* C11: while the home screen is shown, an iteration redraws it (clear, draw,
\* flush) exactly when that iteration made a blink transition.
C11_RedrawPerBlink == ui_state = "Home" => (redrawn <=> blinked)

\* C12: while the UI state is Menu, an iteration redraws the Menu screen iff
\* the raw level it sampled is released.
C12_RedrawIffRawReleased == ui_state = "Menu" => (redrawn <=> ~btn_raw_last)

\* C12 amended: while the UI state is Menu, an iteration redraws the Menu screen
\* iff the debounced level btn_down is false after its button handling.
C12_RedrawIffNotDown ==
  ui_state = "Menu" => /\ redrawn <=> ~btn_down
                       /\ redrawn => display = <<"Menu", option_index>>

\* C12 witness: in Menu the raw level is pressed but not yet debounced, and
\* the iteration has redrawn the Menu screen.
C12_Witness ==
  ui_state = "Menu" /\ btn_raw_last /\ ~btn_down /\ redrawn /\ display = <<"Menu", 1>>

\* C13: once an iteration has run, the screen last drawn is the screen of the
\* current UiState, with the current selection when that is Menu.
C13_DisplayShowsState ==
  display # <<"Boot">> => display = ScreenOf(ui_state, option_index)

\* the raw level was pressed at the previous iteration and is pressed at this one
StaysPressed == btn_raw_last /\ btn_raw_last'

\* C14 (step, any hold): a raw level that went to pressed and stays pressed is
\* registered once it has been held DEBOUNCE_MS, and the long press is applied
\* by the first iteration that reads now - btn_pressed_at >= LONG_PRESS_MS.
C14_AnyHoldStep ==
  /\ (StaysPressed /\ since_changed >= DEBOUNCE_MS) => btn_down'
  /\ (StaysPressed /\ btn_down /\ ~long_fired /\ since_pressed >= LONG_PRESS_MS)
       => Called(calls', "long")
  /\ Called(calls', "long") => since_pressed >= LONG_PRESS_MS

\* C14: if the raw level becomes pressed and stays pressed, the press is
\* registered on the first iteration that reads >= DEBOUNCE_MS since the
\* change and the long press is applied on the first iteration that reads
\* >= LONG_PRESS_MS since btn_pressed_at, never earlier.
C14_HoldTiming == [][C14_AnyHoldStep]_vars

\* C14 amended (step): the same for a raw level that went to pressed while
\* btn_down was false.
C14_FreshHoldStep ==
  /\ (fresh_hold /\ StaysPressed /\ since_changed < DEBOUNCE_MS) => ~btn_down'
  /\ (fresh_hold /\ StaysPressed /\ since_changed >= DEBOUNCE_MS)
       => /\ btn_down'
          /\ ~btn_down => (since_pressed' \in TickDurations /\ ~long_fired')
  /\ (fresh_hold /\ StaysPressed /\ btn_down /\ since_pressed < LONG_PRESS_MS)
       => (~long_fired' /\ calls' = <<>>)
  /\ (fresh_hold /\ StaysPressed /\ btn_down /\ ~long_fired /\ since_pressed >= LONG_PRESS_MS)
       => (long_fired' /\ calls' = <<"long">>)
  /\ Called(calls', "long") => since_pressed >= LONG_PRESS_MS

\* C14 amended: if the raw level becomes pressed while btn_down is false and
\* stays pressed, the press is registered on the first iteration that reads
\* >= DEBOUNCE_MS since the change and the long press is applied on the first
\* iteration that reads >= LONG_PRESS_MS since btn_pressed_at; no long press
\* is ever applied earlier than LONG_PRESS_MS after btn_pressed_at.
C14_FreshHoldTiming == [][C14_FreshHoldStep]_vars

\* C14 witness: an uninterrupted hold has been registered and its long press
\* has just been applied.
C14_Witness ==
  fresh_hold /\ btn_down /\ long_fired /\ calls = <<"long">> /\ long_calls = 1
    /\ since_pressed = LONG_PRESS_MS

\* C15: an iteration calls at most one handler; one that calls none (a
\* debounced rising edge included) leaves ui_state and option_index unchanged.
C15_OneHandlerPerTick ==
  [][/\ Len(calls') <= 1
     /\ (calls' = <<>> \/ RisingStep) => (ui_state' = ui_state /\ option_index' = option_index)
     /\ RisingStep => calls' = <<>>]_vars

\* C15 witness: a press has just been registered in Menu with selection 1 and
\* neither has changed.
C15_Witness ==
  btn_down /\ since_pressed \in TickDurations /\ ~long_fired /\ calls = <<>>
    /\ ui_state = "Menu" /\ option_index = 1

\* C16: a call of handle_long_press leaves the selection as it was, so Menu
\* entered from Home shows the selection Menu was last left with.
C16_LongPressKeepsSelection ==
  [][Called(calls', "long") => option_index' = option_index]_vars

\* C16 witness: Menu has just been entered by a long press with selection 2,
\* left over from the last visit.
C16_Witness ==
  ui_state = "Menu" /\ option_index = 2 /\ calls = <<"long">> /\ btn_down

\* C17: for a body that is valid UTF-8 as a whole, whatever the chunks: the
\* text pushed so far followed by the bytes kept at the start of the buffer is
\* exactly what has been read, at most 3 bytes are kept, and when the loop
\* exits get_weather returns exactly the body.
C17_ChunkedDecode ==
  ValidUtf8(body) =>
    /\ json_response \o SubSeq(buf, 1, offset) = SubSeq(body, 1, sent)
    /\ offset <= 3
    /\ ValidUtf8(json_response)
    /\ wpc = "done" => json_response = body

\* C17 witness: a 3-byte character was cut after its second byte, and the
\* whole body has been returned.
C17_Witness ==
  wpc = "done" /\ max_offset = 2 /\ json_response = body /\ body = <<65, 226, 169, 169>>

\* C18: the body-read loop exits, whatever the reads return.
C18_ReadLoopTerminates == <>(wpc = "done")

====
